---- MODULE Spec2Model ----
(***************************************************************************)
(* The CDN download-log job of src/worker/jobs/downloads/process_log.rs:   *)
(* `run` counts the downloads of a log file into a DownloadsMap and, when  *)
(* writing is enabled, merges it into the version_downloads ledger inside  *)
(* one database transaction (save_downloads).  Several runs of the job     *)
(* share one connection pool and one database.                             *)
(***************************************************************************)
EXTENDS Integers, FiniteSets, Sequences, Bags, TLC

(***************************************************************************)
(* Bounds of the model.                                                    *)
(***************************************************************************)
\* largest number of entries of one DownloadsMap
MaxEntries == 2
\* largest ordinary download count of one entry, and of a seeded ledger row
MaxCount == 1
\* log_top_downloads: the longest exported vector, its largest count and the
\* largest `num`
MaxVec == 3
MaxTopCount == 3
MaxNum == 4
\* DownloadsMap: the most records fed into one map and their largest count
MaxRecords == 4
MaxRecordCount == 2

(***************************************************************************)
(* Integer widths.  The code uses u64 (DownloadsMap counts), i64           *)
(* (NewDownload.downloads) and the 32-bit SQL INTEGER (temp_downloads and  *)
(* version_downloads columns).  TLC's integers are 32 bits wide, so the    *)
(* widths are scaled down; their order (INTEGER < i64 = u64) and the       *)
(* wrap-around arithmetic are kept.                                        *)
(***************************************************************************)
BitsU64 == 5
BitsI64 == 5
BitsInteger == 4

Pow2(n) == 2 ^ n
U64_MAX == Pow2(BitsU64) - 1
I64_MAX == Pow2(BitsI64 - 1) - 1
INTEGER_MAX == Pow2(BitsInteger - 1) - 1
INTEGER_MIN == -Pow2(BitsInteger - 1)

\* `downloads as i64`: the wrapping cast of a u64 to an i64
as_i64(n) == IF n > I64_MAX THEN n - Pow2(BitsI64) ELSE n

\* whether a value fits a SQL INTEGER column; storing any other value is the
\* database error "integer out of range"
InInteger(n) == INTEGER_MIN <= n /\ n <= INTEGER_MAX

(***************************************************************************)
(* The catalog (crates and versions tables), as the tests seed it.         *)
(***************************************************************************)
\* crates.name -> crates.id
crates == [n \in {"bindgen", "tracing-core", "quick-error"} |->
             CASE n = "bindgen" -> 1 [] n = "tracing-core" -> 2 [] OTHER -> 3]

\* (versions.crate_id, versions.num) -> versions.id
versions == [cv \in {<<1, "0.65.1">>, <<2, "0.1.32">>, <<3, "1.2.3">>} |->
               CASE cv[1] = 1 -> 1 [] cv[1] = 2 -> 2 [] OTHER -> 3]

VersionIds == {versions[cv] : cv \in DOMAIN versions}

NULL == 0

(***************************************************************************)
(* Log data.                                                               *)
(***************************************************************************)
Dates == {"2024-01-16", "2024-01-17"}

\* semver::Version as (major, minor, patch)
V_1_2_3 == <<1, 2, 3>>

\* Version::to_string
to_string(v) == ToString(v[1]) \o "." \o ToString(v[2]) \o "." \o ToString(v[3])

\* the (name, version, date) keys that occur in the log files of the model:
\* a version of the catalog on two days, and a crate that is not in the
\* catalog with a version number that another crate has
LogKeys == {<<"quick-error", V_1_2_3, "2024-01-16">>,
            <<"quick-error", V_1_2_3, "2024-01-17">>,
            <<"libc", V_1_2_3, "2024-01-16">>}

\* the counts an entry can hold: ordinary ones and the largest u64
Counts == (1 .. MaxCount) \cup {U64_MAX}

\* DownloadsMap: at most one count per (name, version, date)
DownloadsMaps ==
    UNION {[D -> Counts] : D \in {S \in SUBSET LogKeys : Cardinality(S) <= MaxEntries}}

EmptyMap == <<>>

\* DownloadsMap::is_empty
is_empty_never(m) == FALSE
is_empty(m) == DOMAIN m = {}

(***************************************************************************)
(* NewDownload::from: a DownloadsMap entry as a temp_downloads row.        *)
(***************************************************************************)
NewDownload(key, count) ==
    [name |-> key[1], version |-> to_string(key[2]), date |-> key[3],
     downloads |-> as_i64(count)]

(***************************************************************************)
(* The joined_data CTE of save_to_version_downloads: versions.id of a      *)
(* temp_downloads row, NULL when a LEFT JOIN finds no crate or no version. *)
(***************************************************************************)
joined_id_any_crate(row) ==
    IF \E cv \in DOMAIN versions : cv[2] = row.version
    THEN versions[CHOOSE cv \in DOMAIN versions : cv[2] = row.version]
    ELSE NULL

joined_id(row) ==
    IF row.name \in DOMAIN crates
        /\ <<crates[row.name], row.version>> \in DOMAIN versions
    THEN versions[<<crates[row.name], row.version>>]
    ELSE NULL

\* the version_downloads key (version_id, date) a row is merged into
ledger_key_without_date(row) == <<joined_id(row), "2024-01-16">>
ledger_key(row) == <<joined_id(row), row.date>>

(***************************************************************************)
(* The version_downloads ledger: (version_id, date) -> row.                *)
(***************************************************************************)
LedgerKeys == VersionIds \X Dates

\* a row as INSERT creates it: counted and processed take the column defaults
inserted_row(n) == [downloads |-> n, counted |-> 0, processed |-> FALSE]

\* the ledgers a run can find: empty, or seeded by earlier activity with one
\* row of the version that occurs in the logs and one row of another version
SeededLedgers ==
    {[k \in {<<3, "2024-01-16">>, <<1, "2024-01-17">>} |->
        [downloads |-> n, counted |-> n, processed |-> TRUE]] : n \in 1 .. MaxCount}

InitialLedgers == {<<>>} \cup SeededLedgers

Runs == {1, 2}

\* the sessions (connections) db_pool holds
PoolSize == 2

NoTable == [exists |-> FALSE, rows |-> <<>>, on_commit_drop |-> FALSE]

\* a connection that has not run a transaction yet
FreshSession == [temp_downloads |-> NoTable, used |-> FALSE]

(***************************************************************************)
(* log_top_downloads(downloads, num) as a function of the exported vector. *)
(***************************************************************************)
\* the (String, Version, NaiveDate, u64) tuples into_vec() can export
Tuples == {<<k[1], k[2], k[3], c>> : k \in LogKeys, c \in 1 .. MaxTopCount}

\* what downloads.into_vec() can return: one tuple per key of the map, in
\* the order of the export
Vecs ==
    UNION {{v \in [1 .. n -> Tuples] :
               \A i, j \in 1 .. n :
                   i # j => <<v[i][1], v[i][2], v[i][3]>> # <<v[j][1], v[j][2], v[j][3]>>} :
           n \in 0 .. MaxVec}

\* a vector with x put behind the last element whose count is not smaller
\* (or, for the unstable variant, in front of the first whose count is not
\* greater)
insert_unstable(sorted, x) ==
    LET i == Cardinality({j \in 1 .. Len(sorted) : sorted[j][4] > x[4]})
    IN  SubSeq(sorted, 1, i) \o <<x>> \o SubSeq(sorted, i + 1, Len(sorted))
insert(sorted, x) ==
    LET i == Cardinality({j \in 1 .. Len(sorted) : sorted[j][4] >= x[4]})
    IN  SubSeq(sorted, 1, i) \o <<x>> \o SubSeq(sorted, i + 1, Len(sorted))

RECURSIVE sort_by_key(_)
\* downloads.sort_by_key(|(_, _, _, downloads)| Reverse(*downloads)): the
\* stable sort by decreasing count
sort_by_key(v) ==
    IF v = <<>> THEN <<>>
    ELSE insert(sort_by_key(SubSeq(v, 1, Len(v) - 1)), v[Len(v)])

\* .into_iter().take(num)
take(v, n) == SubSeq(v, 1, IF n < Len(v) THEN n ELSE Len(v))

(***************************************************************************)
(* DownloadsMap as the records of the log build it.                        *)
(***************************************************************************)
\* the DownloadRecords of the model: a key and a count
Records == LogKeys \X (1 .. MaxRecordCount)

\* DownloadsMap::add: a record is added to the entry of its key, which is
\* created when the map has none
add_last_seen(map, key, n) ==
    {e \in map : e[1] # key} \cup {<<key, n>>}
add(map, key, n) ==
    IF \E e \in map : e[1] = key
    THEN {IF e[1] = key THEN <<key, e[2] + n>> ELSE e : e \in map}
    ELSE map \cup {<<key, n>>}

(***************************************************************************)
(* The log file: the `path` argument of run, the answer of the object      *)
(* store and the choice of the decompressor.                               *)
(***************************************************************************)
\* Option<&str>::None of path.extension()
NoExtension == "None"

\* the `path: &str` arguments of the model, as the segments of the path and
\* the extension of the last one: the file of the tests, a file with another
\* extension, one without extension, and a path with an empty segment
RawPaths ==
    {[segments |-> <<"cloudfront", "static.crates.io", "E35K556QRQDZXW">>,
      extension |-> e] : e \in {"gz", "txt", NoExtension}}
    \cup {[segments |-> <<"cloudfront", "", "E35K556QRQDZXW">>, extension |-> "gz"]}

NoPath == [segments |-> <<>>, extension |-> NoExtension]

\* Path::parse: Ok unless a segment of the path is empty
Path_parse_is_ok(raw) == \A i \in DOMAIN raw.segments : raw.segments[i] # ""

\* path.extension()
extension(p) == p.extension

\* what store.head(path) can return: the metadata of the object,
\* object_store::Error::NotFound when there is no object at the path, or
\* another object_store::Error (network, credentials, backend)
HeadResults == {"Ok", "NotFound", "Generic"}

\* the anyhow::Error of `.with_context(..)`: the message is put in front of
\* the error, which stays in the chain with its kind
NoError == [context |-> "", source |-> "none"]
with_context_opaque(context, err) == [context |-> context, source |-> "anyhow"]
with_context(context, err) == [context |-> context, source |-> err]

\* the extensions Decompressor::from_extension has a decompressor for
SupportedExtensions == {"gz"}

\* Decompressor::from_extension(reader, extension): a decompressor, or an
\* error for an extension without one; it reads nothing from the reader
from_extension(ext) == IF ext \in SupportedExtensions THEN "Ok" ELSE "Err"

\* the `?` after Decompressor::from_extension(..): an Err returns from run
is_err_ignored(res) == FALSE
is_err(res) == res = "Err"

\* the phases of a run, in the order of the statements of run and
\* load_and_count
PhaseOrder == <<"fetch", "decompress", "count", "merge">>

VARIABLES
    exported,        \* log_top_downloads: what downloads.into_vec() returned
    vec,             \* log_top_downloads: the vector `downloads`
    num,             \* log_top_downloads: the argument `num`
    top_downloads,   \* log_top_downloads: the tuples of the log line
    stmt,            \* log_top_downloads: the statement reached
    entries,         \* a DownloadsMap under construction: its (key, count) entries
    fed,             \* history: the records fed into that map
    path,            \* the parsed `path` of each run
    meta,            \* what store.head(path) returned to each run
    cause,           \* the error of store.head as `run` returns it
    read,            \* whether count_downloads has read from the reader
    started,         \* history: the phases each run has begun
    completed,       \* history: the phases each run has completed with Ok
    writing_enabled, \* ctx.config.cdn_log_counting_enabled
    pc,              \* the position of each run
    downloads,       \* the DownloadsMap of each run
    idle,            \* db_pool: the bag of idle sessions
    reused,          \* whether the session a run holds has run a transaction before
    temp,            \* temp_downloads of the session each run holds
    handled,         \* the temp_downloads rows the INSERT of a run has handled
    writes,          \* the uncommitted version_downloads rows of each transaction
    ledger,          \* the committed version_downloads table
    failed_inserts,  \* the unmatched (name, version) pairs a merge returned
    result,          \* what `run` returned: "Ok" or the failing step
    ledger0,         \* history: the ledger before any run
    began_after,     \* history: the runs that had ended when a transaction began
    discarded        \* history: the rows a ROLLBACK of the run discarded

\* the variables of the loading phases, which no later statement changes
file == <<path, meta, cause, read>>

\* the variables of log_top_downloads and of the DownloadsMap under
\* construction, which no statement of a run changes
report == <<exported, vec, num, top_downloads, stmt>>
builder == <<entries, fed>>
pure == <<report, builder>>

vars == <<pure, file, started, completed, writing_enabled, pc, downloads, idle, reused,
          temp, handled, writes,
          ledger, failed_inserts, result, ledger0, began_after, discarded>>

Ended(r) == pc[r] = "done"

\* no call of log_top_downloads
NoReport ==
    /\ exported = <<>>
    /\ vec = <<>>
    /\ num = 0
    /\ top_downloads = <<>>
    /\ stmt = "none"

\* no DownloadsMap under construction
NoBuilder == entries = {} /\ fed = <<>>

\* two runs of the job about to begin, with the pool, the flag and the ledger
\* they find
InitRuns ==
    /\ path = [r \in Runs |-> NoPath]
    /\ meta = [r \in Runs |-> "none"]
    /\ cause = [r \in Runs |-> NoError]
    /\ read = [r \in Runs |-> FALSE]
    /\ started = [r \in Runs |-> <<>>]
    /\ completed = [r \in Runs |-> <<>>]
    /\ writing_enabled \in BOOLEAN
    /\ pc = [r \in Runs |-> "start"]
    /\ downloads = [r \in Runs |-> EmptyMap]
    /\ idle = [s \in {FreshSession} |-> PoolSize]
    /\ reused = [r \in Runs |-> FALSE]
    /\ temp = [r \in Runs |-> NoTable]
    /\ handled = [r \in Runs |-> {}]
    /\ writes = [r \in Runs |-> <<>>]
    /\ ledger \in InitialLedgers
    /\ failed_inserts = [r \in Runs |-> EmptyBag]
    /\ result = [r \in Runs |-> "none"]
    /\ ledger0 = ledger
    /\ began_after = [r \in Runs |-> {}]
    /\ discarded = [r \in Runs |-> 0]

Init == NoReport /\ NoBuilder /\ InitRuns

(***************************************************************************)
(* Helpers of the transaction.                                             *)
(***************************************************************************)
\* the session in whose temporary schema a run's statements resolve the name
\* temp_downloads: CREATE TEMPORARY TABLE makes the table local to the
\* session of the connection the run holds
SessionOf_shared(r) == CHOOSE o \in Runs : \A x \in Runs : o <= x
SessionOf(r) == r

\* the table CREATE TEMPORARY TABLE ... ON COMMIT DROP creates
NewTempTable_no_drop == [exists |-> TRUE, rows |-> <<>>, on_commit_drop |-> FALSE]
NewTempTable == [exists |-> TRUE, rows |-> <<>>, on_commit_drop |-> TRUE]

\* ON CONFLICT (version_id, date) DO UPDATE SET
\*     downloads = version_downloads.downloads + EXCLUDED.downloads
on_conflict_replace(old, excluded) == excluded
on_conflict(old, excluded) == old + excluded

\* DO UPDATE SET downloads = ..: the row in conflict with its downloads
\* column set and its other columns as they are
do_update_all_columns(old, excluded) ==
    [downloads |-> on_conflict(old.downloads, excluded), counted |-> 0,
     processed |-> FALSE]
do_update(old, excluded) == [old EXCEPT !.downloads = on_conflict(@, excluded)]

\* INSERT ... ON CONFLICT waits while another open transaction holds an
\* uncommitted version of the row it is about to insert or update
RowLockFree_unlocked(r, lk) == TRUE
RowLockFree(r, lk) == \A o \in Runs \ {r} : lk \notin DOMAIN writes[o]

\* a table with the rows of w written over it
Apply_replace(table, w) == w
Apply(table, w) ==
    [k \in DOMAIN table \cup DOMAIN w |-> IF k \in DOMAIN w THEN w[k] ELSE table[k]]

\* version_downloads after ROLLBACK: nothing the transaction wrote remains
LedgerAfterRollback_partial(r) == Apply(ledger, writes[r])
LedgerAfterRollback(r) == ledger

\* the transaction of run r has created temp_downloads
CreatedTable(r) == pc[r] \in {"created", "filled", "merged"}

\* the temp_downloads rows of a DownloadsMap: into_vec().map(NewDownload::from)
StagingRows(m) == [k \in DOMAIN m |-> NewDownload(k, m[k])]

\* the connection of run r goes back to the pool, with the table `left` in
\* its session
Release(r, left) ==
    /\ idle' = idle (+) SetToBag({[temp_downloads |-> left, used |-> TRUE]})
    /\ reused' = [reused EXCEPT ![r] = FALSE]

\* conn.transaction(..) on Err: ROLLBACK, the connection goes back to the pool
\* and `run` returns the error with the context of the failing step; the
\* DownloadsMap is dropped
Rollback(r, step) ==
    /\ ledger' = LedgerAfterRollback(r)
    /\ writes' = [writes EXCEPT ![r] = <<>>]
    /\ handled' = [handled EXCEPT ![r] = {}]
    /\ LET left == IF CreatedTable(r) THEN NoTable ELSE temp[SessionOf(r)]
       IN  /\ temp' = [temp EXCEPT ![SessionOf(r)] = NoTable]
           /\ Release(r, left)
    /\ discarded' = [discarded EXCEPT ![r] = Cardinality(DOMAIN writes[r])]
    /\ downloads' = [downloads EXCEPT ![r] = EmptyMap]
    /\ pc' = [pc EXCEPT ![r] = "done"]
    /\ result' = [result EXCEPT ![r] = step]

\* the step of save_downloads (or the COMMIT) a run is at
StepAt(r) ==
    CASE pc[r] = "transaction" -> "create_temp_downloads_table"
      [] pc[r] = "created" -> "fill_temp_downloads_table"
      [] pc[r] = "filled" -> "save_to_version_downloads"
      [] OTHER -> "commit"

(***************************************************************************)
(* run, up to the choice of the mode.                                      *)
(***************************************************************************)
\* if writing_enabled { .. save_downloads .. } else { log_top_downloads(..) }
WritingBranch_always == TRUE
WritingBranch_never == FALSE
WritingBranch == writing_enabled

\* the variables of the transaction and the histories of the ledger
merge == <<idle, reused, temp, handled, writes, ledger, failed_inserts, ledger0,
           began_after, discarded>>

\* run r returns the error of `step`
Fail(r, step) ==
    /\ pc' = [pc EXCEPT ![r] = "done"]
    /\ result' = [result EXCEPT ![r] = step]

\* let path = Path::parse(path).with_context(..)?;
Path_parse(r) ==
    /\ pc[r] = "start"
    /\ \E raw \in RawPaths :
          IF Path_parse_is_ok(raw)
          THEN /\ path' = [path EXCEPT ![r] = raw]
               /\ pc' = [pc EXCEPT ![r] = "parsed"]
               /\ UNCHANGED result
          ELSE /\ Fail(r, "Failed to parse path")
               /\ UNCHANGED path
    /\ UNCHANGED <<pure, meta, cause, read, started, completed, writing_enabled,
                   downloads, merge>>

\* let meta = store.head(path).await;
\* let meta = meta.with_context(|| "Failed to request metadata ..")?;
store_head(r) ==
    /\ pc[r] = "parsed"
    /\ started' = [started EXCEPT ![r] = Append(@, "fetch")]
    /\ \E res \in HeadResults :
          /\ meta' = [meta EXCEPT ![r] = res]
          /\ IF res = "Ok"
             THEN /\ completed' = [completed EXCEPT ![r] = Append(@, "fetch")]
                  /\ pc' = [pc EXCEPT ![r] = "meta"]
                  /\ UNCHANGED <<result, cause>>
             ELSE /\ Fail(r, "Failed to request metadata")
                  /\ cause' = [cause EXCEPT ![r] =
                                  with_context("Failed to request metadata", res)]
                  /\ UNCHANGED completed
    /\ UNCHANGED <<pure, path, read, writing_enabled, downloads, merge>>

\* let reader = object_store::buffered::BufReader::new(store, &meta);
\* let decompressor = Decompressor::from_extension(reader, path.extension())?;
Decompressor_from_extension(r) ==
    /\ pc[r] = "meta"
    /\ started' = [started EXCEPT ![r] = Append(@, "decompress")]
    /\ IF is_err(from_extension(extension(path[r])))
       THEN /\ Fail(r, "Decompressor::from_extension")
            /\ UNCHANGED completed
       ELSE /\ completed' = [completed EXCEPT ![r] = Append(@, "decompress")]
            /\ pc' = [pc EXCEPT ![r] = "reader"]
            /\ UNCHANGED result
    /\ UNCHANGED <<pure, file, writing_enabled, downloads, merge>>

\* count_downloads(BufReader::new(decompressor)).await: reads the stream to
\* its end and returns the DownloadsMap of its records, or the error of a
\* read
count_downloads(r) ==
    /\ pc[r] = "reader"
    /\ started' = [started EXCEPT ![r] = Append(@, "count")]
    /\ read' = [read EXCEPT ![r] = TRUE]
    /\ \/ \E m \in DownloadsMaps :
             /\ downloads' = [downloads EXCEPT ![r] = m]
             /\ completed' = [completed EXCEPT ![r] = Append(@, "count")]
             /\ pc' = [pc EXCEPT ![r] = "counted"]
             /\ UNCHANGED result
       \/ /\ Fail(r, "count_downloads")
          /\ UNCHANGED <<downloads, completed>>
    /\ UNCHANGED <<pure, path, meta, cause, writing_enabled, merge>>

\* the `.await?` of load_and_count: run goes on when the count has returned
count_awaited_not(r) == pc[r] \in {"reader", "logged"}
count_awaited(r) == pc[r] = "logged"

\* log_stats: the numbers of the log lines "Number of crates" and "Number of
\* needed inserts"
log_stats(m) ==
    [num_crates |-> Cardinality({k[1] : k \in DOMAIN m}),
     total_inserts |-> Cardinality(DOMAIN m)]

\* if downloads.is_empty() { return Ok(()) }; log_stats(&downloads);
run_counted(r) ==
    /\ pc[r] = "counted"
    /\ IF is_empty(downloads[r])
       THEN /\ pc' = [pc EXCEPT ![r] = "done"]
            /\ result' = [result EXCEPT ![r] = "Ok"]
       ELSE /\ pc' = [pc EXCEPT ![r] = "logged"]
            /\ UNCHANGED result
    /\ UNCHANGED <<pure, file, started, completed, writing_enabled,
                   downloads, idle, reused, temp, handled, writes,
                   ledger, failed_inserts, ledger0, began_after, discarded>>

\* else { log_top_downloads(downloads, 30) }; Ok(())
log_top_downloads(r) ==
    /\ pc[r] = "logged"
    /\ ~WritingBranch
    /\ pc' = [pc EXCEPT ![r] = "done"]
    /\ result' = [result EXCEPT ![r] = "Ok"]
    /\ UNCHANGED <<pure, file, started, completed, writing_enabled,
                   downloads, idle, reused, temp, handled, writes,
                   ledger, failed_inserts, ledger0, began_after, discarded>>

\* let mut conn = db_pool.get()?; conn.transaction(..) begins
db_pool_get(r) ==
    /\ count_awaited(r)
    /\ WritingBranch
    /\ started' = [started EXCEPT ![r] = Append(@, "merge")]
    /\ \/ \E s \in BagToSet(idle) :
             /\ idle' = idle (-) SetToBag({s})
             /\ began_after' = [began_after EXCEPT ![r] = {o \in Runs : Ended(o)}]
             /\ temp' = [temp EXCEPT ![r] = s.temp_downloads]
             /\ reused' = [reused EXCEPT ![r] = s.used]
             /\ pc' = [pc EXCEPT ![r] = "transaction"]
             /\ UNCHANGED <<result, downloads>>
       \/ /\ pc' = [pc EXCEPT ![r] = "done"]
          /\ result' = [result EXCEPT ![r] = "db_pool.get"]
          /\ downloads' = [downloads EXCEPT ![r] = EmptyMap]
          /\ UNCHANGED <<idle, temp, reused, began_after>>
    /\ UNCHANGED <<pure, file, completed, writing_enabled, handled, writes, ledger,
                   failed_inserts, ledger0, discarded>>

(***************************************************************************)
(* save_downloads, inside the transaction.                                 *)
(***************************************************************************)
\* CREATE TEMPORARY TABLE temp_downloads (..) ON COMMIT DROP: an error when the
\* session already has a table of that name
create_temp_downloads_table(r) ==
    /\ pc[r] = "transaction"
    /\ IF temp[SessionOf(r)].exists
       THEN /\ Rollback(r, "create_temp_downloads_table: relation already exists")
            /\ UNCHANGED <<pure, file, started, completed, writing_enabled,
                           failed_inserts, ledger0, began_after>>
       ELSE /\ temp' = [temp EXCEPT ![SessionOf(r)] = NewTempTable]
            /\ pc' = [pc EXCEPT ![r] = "created"]
            /\ UNCHANGED <<pure, file, started, completed, writing_enabled,
                           downloads, idle, reused, handled, writes,
                           ledger, failed_inserts, result, ledger0, began_after,
                           discarded>>

\* INSERT INTO temp_downloads the NewDownload of every entry, as one batch; a
\* value that does not fit the INTEGER column fails the statement
fill_temp_downloads_table(r) ==
    /\ pc[r] = "created"
    /\ LET map == StagingRows(downloads[r])
       IN  IF \A k \in DOMAIN map : InInteger(map[k].downloads)
           THEN /\ temp' = [temp EXCEPT ![SessionOf(r)].rows = Apply(@, map)]
                /\ pc' = [pc EXCEPT ![r] = "filled"]
                /\ UNCHANGED <<pure, file, started, completed, writing_enabled,
                               downloads, idle, reused, handled,
                               writes, ledger, failed_inserts, result, ledger0,
                               began_after, discarded>>
           ELSE /\ Rollback(r, "fill_temp_downloads_table: integer out of range")
                /\ UNCHANGED <<pure, file, started, completed, writing_enabled,
                               failed_inserts, ledger0,
                               began_after>>

\* one row of INSERT INTO version_downloads .. SELECT .. FROM joined_data
\* WHERE joined_data.id IS NOT NULL ON CONFLICT .. DO UPDATE
upsert(r, k) ==
    /\ pc[r] = "filled"
    /\ k \in DOMAIN temp[SessionOf(r)].rows
    /\ k \notin handled[r]
    /\ LET row == temp[SessionOf(r)].rows[k]
           lk == ledger_key(row)
           new == IF lk \in DOMAIN ledger
                  THEN do_update(ledger[lk], row.downloads)
                  ELSE inserted_row(row.downloads)
       IN  /\ joined_id(row) # NULL
           /\ RowLockFree(r, lk)
           /\ IF lk \in DOMAIN writes[r]
              THEN /\ Rollback(r, "save_to_version_downloads: row affected a second time")
                   /\ UNCHANGED <<pure, file, started, completed, writing_enabled,
                                  failed_inserts, ledger0,
                                  began_after>>
              ELSE IF ~InInteger(new.downloads)
              THEN /\ Rollback(r, "save_to_version_downloads: integer out of range")
                   /\ UNCHANGED <<pure, file, started, completed, writing_enabled,
                                  failed_inserts, ledger0,
                                  began_after>>
              ELSE /\ writes' = [writes EXCEPT ![r] = Apply(@, [x \in {lk} |-> new])]
                   /\ handled' = [handled EXCEPT ![r] = @ \cup {k}]
                   /\ UNCHANGED <<pure, file, started, completed, writing_enabled,
                                  pc, downloads, idle, reused, temp,
                                  ledger, failed_inserts, result, ledger0,
                                  began_after, discarded>>

\* the rows of joined_data whose id IS NULL
Unmatched_all(rows) == DOMAIN rows
Unmatched(rows) == {k \in DOMAIN rows : joined_id(rows[k]) = NULL}

\* SELECT name, version FROM joined_data WHERE id IS NULL, as a bag of pairs
unmatched_pairs(rows) ==
    LET pair(k) == <<rows[k].name, rows[k].version>>
        pairs == {pair(k) : k \in Unmatched(rows)}
    IN  [p \in pairs |-> Cardinality({k \in Unmatched(rows) : pair(k) = p})]

\* the statement ends once every row with an id is written; it returns the
\* unmatched pairs, which save_downloads logs before it returns Ok
save_to_version_downloads(r) ==
    /\ pc[r] = "filled"
    /\ LET rows == temp[SessionOf(r)].rows
       IN  /\ (DOMAIN rows) \ Unmatched(rows) \subseteq handled[r]
           /\ failed_inserts' = [failed_inserts EXCEPT ![r] = unmatched_pairs(rows)]
    /\ pc' = [pc EXCEPT ![r] = "merged"]
    /\ UNCHANGED <<pure, file, started, completed, writing_enabled,
                   downloads, idle, reused, temp, handled, writes,
                   ledger, result, ledger0, began_after, discarded>>

\* a statement of the transaction, or its COMMIT, fails in the database
\* (connection lost, deadlock detected, ...): `?` returns the error
database_error(r) ==
    /\ pc[r] \in {"transaction", "created", "filled", "merged"}
    /\ Rollback(r, StepAt(r))
    /\ failed_inserts' = [failed_inserts EXCEPT ![r] = EmptyBag]
    /\ UNCHANGED <<pure, file, started, completed, writing_enabled,
                   ledger0, began_after>>

\* conn.transaction(..) on Ok: COMMIT publishes the rows written, drops the
\* ON COMMIT DROP table and the connection goes back to the pool
commit(r) ==
    /\ pc[r] = "merged"
    /\ ledger' = Apply(ledger, writes[r])
    /\ writes' = [writes EXCEPT ![r] = <<>>]
    /\ handled' = [handled EXCEPT ![r] = {}]
    /\ LET left == IF temp[SessionOf(r)].on_commit_drop
                   THEN NoTable
                   ELSE temp[SessionOf(r)]
       IN  /\ temp' = [temp EXCEPT ![SessionOf(r)] = NoTable]
           /\ Release(r, left)
    /\ completed' = [completed EXCEPT ![r] = Append(@, "merge")]
    /\ pc' = [pc EXCEPT ![r] = "done"]
    /\ result' = [result EXCEPT ![r] = "Ok"]
    /\ UNCHANGED <<pure, file, started, writing_enabled, downloads, failed_inserts,
                   ledger0, began_after, discarded>>

\* the next statement of run r
poll(r) ==
    \/ Path_parse(r)
    \/ store_head(r)
    \/ Decompressor_from_extension(r)
    \/ count_downloads(r)
    \/ run_counted(r)
    \/ log_top_downloads(r)
    \/ db_pool_get(r)
    \/ create_temp_downloads_table(r)
    \/ fill_temp_downloads_table(r)
    \/ \E k \in LogKeys : upsert(r, k)
    \/ save_to_version_downloads(r)
    \/ database_error(r)
    \/ commit(r)

Next == \E r \in Runs : poll(r)

Spec == Init /\ [][Next]_vars

\* the runtime polls every task that can go on and every request to the
\* store, the pool or the database comes back with an answer or an error: a
\* run that waits for a row lock goes on when the transaction that holds it
\* ends, or fails when the database detects a deadlock
SpecFair == Spec /\ \A r \in Runs : WF_vars(poll(r))

(***************************************************************************)
(* log_top_downloads, statement by statement, for every exported vector    *)
(* and every `num`.                                                        *)
(***************************************************************************)
\* the variables of the runs
runs == <<file, started, completed, writing_enabled, pc, downloads, merge, result>>

\* no run is made: the job has its first state, in report-only mode
NoRuns == InitRuns /\ ~writing_enabled /\ ledger = <<>>

\* let mut downloads = downloads.into_vec();
InitTop ==
    /\ NoRuns
    /\ NoBuilder
    /\ exported \in Vecs
    /\ vec = exported
    /\ num \in 0 .. MaxNum
    /\ top_downloads = <<>>
    /\ stmt = "into_vec"

\* downloads.sort_by_key(|(_, _, _, downloads)| Reverse(*downloads));
log_top_downloads_sort ==
    /\ stmt = "into_vec"
    /\ vec' = sort_by_key(vec)
    /\ stmt' = "sorted"
    /\ UNCHANGED <<exported, num, top_downloads, builder, runs>>

\* let top_downloads = downloads.into_iter().take(num). .. .collect();
log_top_downloads_take ==
    /\ stmt = "sorted"
    /\ top_downloads' = take(vec, num)
    /\ stmt' = "logged"
    /\ UNCHANGED <<exported, vec, num, builder, runs>>

NextTop == log_top_downloads_sort \/ log_top_downloads_take

SpecTop == InitTop /\ [][NextTop]_vars

(***************************************************************************)
(* A DownloadsMap, record by record.                                       *)
(***************************************************************************)
InitMap == NoRuns /\ NoReport /\ NoBuilder

\* one more record of the log is added to the map
add_record(key, n) ==
    /\ Len(fed) < MaxRecords
    /\ entries' = add(entries, key, n)
    /\ fed' = Append(fed, <<key, n>>)
    /\ UNCHANGED <<report, runs>>

NextMap == \E rec \in Records : add_record(rec[1], rec[2])

SpecMap == InitMap /\ [][NextMap]_vars

(***************************************************************************)
(* Vocabulary of the properties.                                           *)
(***************************************************************************)
\* a DownloadsMap without entries
NoEntries(m) == DOMAIN m = {}

\* run r returned Ok after its transaction committed
Committed(r) ==
    pc[r] = "done" /\ result[r] = "Ok" /\ writing_enabled /\ ~NoEntries(downloads[r])

\* run r is inside conn.transaction(..)
InTransaction(r) == pc[r] \in {"transaction", "created", "filled", "merged"}

\* run r failed in one of the three steps of save_downloads
FailedInMerge(r) ==
    result[r] \in {"create_temp_downloads_table",
                   "create_temp_downloads_table: relation already exists",
                   "fill_temp_downloads_table",
                   "fill_temp_downloads_table: integer out of range",
                   "save_to_version_downloads",
                   "save_to_version_downloads: integer out of range",
                   "save_to_version_downloads: row affected a second time"}

\* the entries of a DownloadsMap whose rows are merged into ledger key lk
KeysFor(m, lk) == {k \in DOMAIN m : ledger_key(StagingRows(m)[k]) = lk}

RECURSIVE SumStaged(_, _)
\* the sum of the staged counts of the entries K of a DownloadsMap
SumStaged(m, K) ==
    IF K = {} THEN 0
    ELSE LET k == CHOOSE x \in K : TRUE
         IN  StagingRows(m)[k].downloads + SumStaged(m, K \ {k})

\* what the committed runs among S staged for ledger key lk
StagedBy(S, lk) ==
    LET amount(r) == IF Committed(r)
                     THEN SumStaged(downloads[r], KeysFor(downloads[r], lk))
                     ELSE 0
    IN  IF 1 \in S THEN amount(1) + (IF 2 \in S THEN amount(2) ELSE 0)
        ELSE IF 2 \in S THEN amount(2) ELSE 0

\* the ledger keys the committed runs among S merged a row into
KeysOf(S) ==
    {lk \in LedgerKeys : \E r \in S : Committed(r) /\ KeysFor(downloads[r], lk) # {}}

\* the counter of a ledger key before any run, 0 when it had no row
Counter0(lk) == IF lk \in DOMAIN ledger0 THEN ledger0[lk].downloads ELSE 0

\* the ledger holds the rows it began with and the rows of the committed runs
\* among S, each counter being its first value plus what those runs staged
LedgerIsSumOf(S) ==
    /\ DOMAIN ledger = DOMAIN ledger0 \cup KeysOf(S)
    /\ \A lk \in DOMAIN ledger : ledger[lk].downloads = Counter0(lk) + StagedBy(S, lk)

(***************************************************************************)
(* C1: in a write-mode run, when creating the staging table, loading it or *)
(* merging it into the ledger fails, the run has ended in failure and the  *)
(* ledger shows nothing of that run: it holds exactly its first rows and   *)
(* what the other runs committed.                                          *)
(***************************************************************************)
C1_FailedMergeLeavesNoTrace ==
    \A r \in Runs :
        FailedInMerge(r) =>
            /\ pc[r] = "done"
            /\ result[r] # "Ok"
            /\ writes[r] = <<>>
            /\ LedgerIsSumOf(Runs \ {r})

\* a merge failed after it had written ledger rows, which the rollback discarded
C1_Witness ==
    \E r \in Runs : result[r] = "save_to_version_downloads" /\ discarded[r] > 0

(***************************************************************************)
(* C2: the COMMIT of a merge leaves, for every staging row that resolves   *)
(* to a version id, the ledger row of (version id, date) with the staged   *)
(* count when there was no row before, and with the previous counter plus  *)
(* the staged count when there was one.                                    *)
(***************************************************************************)
C2_UpsertAddsStagedCount ==
    [][\A r \in Runs :
          (pc[r] = "merged" /\ pc'[r] = "done" /\ result'[r] = "Ok") =>
              \A k \in DOMAIN temp[r].rows :
                  LET row == temp[r].rows[k]
                      lk == ledger_key(row)
                  IN  joined_id(row) # NULL =>
                          /\ lk \in DOMAIN ledger'
                          /\ ledger'[lk].downloads =
                                IF lk \in DOMAIN ledger
                                THEN ledger[lk].downloads + row.downloads
                                ELSE row.downloads]_vars

\* one committed merge added to a row that existed and inserted one that did not
C2_Witness ==
    \E r \in Runs :
        /\ Committed(r)
        /\ \A o \in Runs \ {r} : ~Committed(o)
        /\ DOMAIN downloads[r] = {<<"quick-error", V_1_2_3, "2024-01-16">>,
                                  <<"quick-error", V_1_2_3, "2024-01-17">>}
        /\ <<3, "2024-01-16">> \in DOMAIN ledger0
        /\ <<3, "2024-01-17">> \notin DOMAIN ledger0
        /\ ledger[<<3, "2024-01-16">>].downloads =
              ledger0[<<3, "2024-01-16">>].downloads + 1
        /\ ledger[<<3, "2024-01-17">>].downloads = 1

\* the catalog has the version `num` of the crate `name`
InCatalog(name, version) ==
    \E c \in DOMAIN crates : c = name /\ <<crates[c], version>> \in DOMAIN versions

\* the version_downloads key of a DownloadsMap key the catalog has
CatalogKey(k) == <<versions[<<crates[k[1]], to_string(k[2])>>], k[3]>>

\* the entries of a DownloadsMap without a crate or version in the catalog
Missing(m) == {k \in DOMAIN m : ~InCatalog(k[1], to_string(k[2]))}

\* the merge of one run began after the other run had ended
InSequence == 1 \in began_after[2] \/ 2 \in began_after[1]

(***************************************************************************)
(* C3: two merges in sequence of the same DownloadsMap, from an empty      *)
(* ledger, leave every entry the catalog resolves with twice the count of  *)
(* the map.                                                                *)
(***************************************************************************)
C3_SameMapTwiceDoubles ==
    (/\ ledger0 = <<>>
     /\ Committed(1) /\ Committed(2)
     /\ InSequence
     /\ downloads[1] = downloads[2]) =>
        \A k \in DOMAIN downloads[1] \ Missing(downloads[1]) :
            /\ CatalogKey(k) \in DOMAIN ledger
            /\ ledger[CatalogKey(k)].downloads = 2 * downloads[1][k]

(***************************************************************************)
(* C4: a committed merge returns every entry without a crate or version in *)
(* the catalog as an unmatched pair, and only those; the ledger has no row *)
(* for such an entry, and it has the rows of the other entries of the same *)
(* map; the run returned Ok.                                               *)
(***************************************************************************)
C4_UnmatchedReportedNotWritten ==
    \A r \in Runs :
        Committed(r) =>
            /\ \A k \in Missing(downloads[r]) :
                  BagIn(<<k[1], to_string(k[2])>>, failed_inserts[r])
            /\ BagCardinality(failed_inserts[r]) = Cardinality(Missing(downloads[r]))
            /\ \A k \in DOMAIN downloads[r] \ Missing(downloads[r]) :
                  CatalogKey(k) \in DOMAIN ledger
            /\ DOMAIN ledger =
                  DOMAIN ledger0 \cup
                  {CatalogKey(k) : k \in
                      UNION {DOMAIN downloads[o] \ Missing(downloads[o]) :
                                o \in {x \in Runs : Committed(x)}}}

\* a run returned Ok for a map of one entry of the catalog and one of a crate
\* the catalog does not have
C4_Witness ==
    \E r \in Runs :
        /\ Committed(r)
        /\ \A o \in Runs \ {r} : ~Committed(o)
        /\ ledger0 = <<>>
        /\ DOMAIN downloads[r] = {<<"quick-error", V_1_2_3, "2024-01-16">>,
                                  <<"libc", V_1_2_3, "2024-01-16">>}
        /\ failed_inserts[r] = SetToBag({<<"libc", "1.2.3">>})
        /\ DOMAIN ledger = {<<3, "2024-01-16">>}

(***************************************************************************)
(* C5: with writing disabled no run changes the ledger, whatever the log   *)
(* files and the ledger are, and no run takes a connection or creates a    *)
(* staging table.                                                          *)
(***************************************************************************)
C5_ReportOnlyWritesNothing ==
    ~writing_enabled =>
        /\ ledger = ledger0
        /\ \A r \in Runs : ~InTransaction(r) /\ ~temp[r].exists /\ writes[r] = <<>>
        /\ idle = [s \in {FreshSession} |-> PoolSize]

\* a report-only run of a map with entries returned Ok
C5_Witness ==
    /\ ~writing_enabled
    /\ ledger0 # <<>>
    /\ \E r \in Runs :
          pc[r] = "done" /\ result[r] = "Ok" /\ Cardinality(DOMAIN downloads[r]) = 2

(***************************************************************************)
(* C6: a run whose count is an empty DownloadsMap ends at once with Ok, in *)
(* both modes: its next step changes no ledger row, reports no unmatched   *)
(* pair and takes no connection, and no transaction ever begins with an    *)
(* empty map.                                                              *)
(***************************************************************************)
C6_EmptyMapIsNoOp ==
    [][\A r \in Runs :
          /\ (pc[r] = "counted" /\ NoEntries(downloads[r]) /\ pc'[r] # pc[r]) =>
                /\ pc'[r] = "done"
                /\ result'[r] = "Ok"
                /\ ledger' = ledger
                /\ idle' = idle
                /\ failed_inserts'[r] = EmptyBag
          /\ InTransaction(r)' => ~NoEntries(downloads'[r])]_vars

\* a run in write mode returned Ok for an empty map
C6_Witness ==
    \E r \in Runs :
        /\ writing_enabled
        /\ pc[r] = "done" /\ result[r] = "Ok"
        /\ NoEntries(downloads[r])
        /\ failed_inserts[r] = EmptyBag
        /\ discarded[r] = 0

(***************************************************************************)
(* C7: after one write-mode run that returned Ok, on a ledger that was     *)
(* empty, for a map all of whose entries are in the catalog, the ledger    *)
(* holds exactly one row per entry, with the entry's count.                *)
(***************************************************************************)
C7_LedgerEqualsMap ==
    \A r \in Runs :
        (/\ Committed(r)
         /\ \A o \in Runs \ {r} : ~Committed(o)
         /\ ledger0 = <<>>
         /\ Missing(downloads[r]) = {}) =>
            /\ DOMAIN ledger = {CatalogKey(k) : k \in DOMAIN downloads[r]}
            /\ \A k \in DOMAIN downloads[r] :
                  ledger[CatalogKey(k)].downloads = downloads[r][k]

(***************************************************************************)
(* C8: when both runs have committed, in whatever way their transactions   *)
(* interleaved, a ledger row both staged a count for holds its first       *)
(* counter plus both staged counts.                                        *)
(***************************************************************************)
C8_ConcurrentMergesAdd ==
    (Committed(1) /\ Committed(2)) =>
        \A lk \in LedgerKeys :
            (KeysFor(downloads[1], lk) # {} /\ KeysFor(downloads[2], lk) # {}) =>
                /\ lk \in DOMAIN ledger
                /\ ledger[lk].downloads =
                      Counter0(lk)
                      + SumStaged(downloads[1], KeysFor(downloads[1], lk))
                      + SumStaged(downloads[2], KeysFor(downloads[2], lk))

\* both runs committed transactions that overlapped in time and staged counts
\* for the same two ledger rows, one of which existed before
C8_Witness ==
    /\ Committed(1) /\ Committed(2)
    /\ began_after[1] = {} /\ began_after[2] = {}
    /\ ledger0 # <<>>
    /\ \A r \in Runs : DOMAIN downloads[r] = {<<"quick-error", V_1_2_3, "2024-01-16">>,
                                             <<"quick-error", V_1_2_3, "2024-01-17">>}
    /\ ledger[<<3, "2024-01-16">>].downloads = ledger0[<<3, "2024-01-16">>].downloads + 2
    /\ ledger[<<3, "2024-01-17">>].downloads = 2

(***************************************************************************)
(* C9: the staging table a run merges from holds the rows of its own       *)
(* DownloadsMap and no others, and no run fails to create its staging      *)
(* table because a table of that name exists.                              *)
(***************************************************************************)
C9_StagingTablesIndependent ==
    \A r \in Runs :
        /\ pc[r] \in {"filled", "merged"} =>
              /\ temp[SessionOf(r)].exists
              /\ temp[SessionOf(r)].rows = StagingRows(downloads[r])
        /\ result[r] # "create_temp_downloads_table: relation already exists"

\* both runs are merging at once, from different staging rows
C9_Witness ==
    /\ pc[1] = "filled" /\ pc[2] = "filled"
    /\ handled[1] # {} /\ handled[2] # {}
    /\ downloads[1] # downloads[2]

(***************************************************************************)
(* C10: no connection in the pool has a staging table: the table is gone   *)
(* when the transaction that created it has ended, by COMMIT or by         *)
(* ROLLBACK, so a run that takes a connection used before begins without   *)
(* one and creates its own.                                                *)
(***************************************************************************)
C10_StagingTableEndsWithTransaction ==
    /\ \A s \in BagToSet(idle) : ~s.temp_downloads.exists
    /\ \A r \in Runs : ~InTransaction(r) => ~temp[r].exists
    /\ \A r \in Runs : (pc[r] = "transaction" /\ reused[r]) => ~temp[r].exists

\* a run has created its staging table on a connection that ran the
\* committed transaction of the other run before
C10_Witness ==
    \E r \in Runs :
        /\ reused[r]
        /\ pc[r] = "created"
        /\ \E o \in Runs \ {r} : Committed(o)

(***************************************************************************)
(* Vocabulary of the phases.                                               *)
(***************************************************************************)
\* s is the beginning of t
IsPrefix(s, t) == Len(s) <= Len(t) /\ \A i \in 1 .. Len(s) : s[i] = t[i]

\* run r has begun the phase, has completed it with Ok
Began(r, phase) == \E i \in 1 .. Len(started[r]) : started[r][i] = phase
Completed(r, phase) == \E i \in 1 .. Len(completed[r]) : completed[r][i] = phase

\* run r never took a connection and wrote no ledger row
NoLedgerWrite(r) ==
    /\ ~Began(r, "merge")
    /\ ~InTransaction(r)
    /\ writes[r] = <<>>
    /\ discarded[r] = 0

(***************************************************************************)
(* C11: a run begins its phases in the order fetch, decompress, count,     *)
(* merge, each one only when all the phases before it have completed with  *)
(* Ok, and a run that is inside its merge transaction has completed the    *)
(* count and holds the DownloadsMap the count returned.                    *)
(***************************************************************************)
C11_PhasesInOrder ==
    \A r \in Runs :
        /\ IsPrefix(started[r], PhaseOrder)
        /\ IsPrefix(completed[r], started[r])
        /\ Len(started[r]) <= Len(completed[r]) + 1
        /\ InTransaction(r) =>
              /\ completed[r] = <<"fetch", "decompress", "count">>
              /\ read[r]
              /\ ~NoEntries(downloads[r])

\* a run is merging after its three loading phases, while the other run has
\* failed in the selection of the decompressor
C11_Witness ==
    \E r \in Runs :
        /\ pc[r] = "filled"
        /\ started[r] = PhaseOrder
        /\ \E o \in Runs \ {r} :
              /\ started[o] = <<"fetch", "decompress">>
              /\ completed[o] = <<"fetch">>
              /\ Ended(o)

(***************************************************************************)
(* C12: a run whose store.head found no object at the path has ended in    *)
(* failure with an error of kind NotFound, a run whose store.head failed   *)
(* otherwise has ended in failure with an error of another kind, and       *)
(* neither has selected a decompressor, read the file, counted or written  *)
(* to the ledger.                                                          *)
(***************************************************************************)
C12_MissingFileIsNotFound ==
    \A r \in Runs :
        /\ meta[r] = "NotFound" => cause[r].source = "NotFound"
        /\ meta[r] = "Generic" => cause[r].source \notin {"NotFound", "none"}
        /\ meta[r] \in {"NotFound", "Generic"} =>
              /\ Ended(r)
              /\ result[r] = "Failed to request metadata"
              /\ ~Began(r, "decompress")
              /\ ~Began(r, "count")
              /\ ~read[r]
              /\ NoEntries(downloads[r])
              /\ NoLedgerWrite(r)

\* one run failed on a missing file and the other on a failure of the store
C12_Witness ==
    \E r \in Runs : \E o \in Runs \ {r} :
        /\ meta[r] = "NotFound" /\ Ended(r)
        /\ meta[o] = "Generic" /\ Ended(o)
        /\ cause[r] # cause[o]

Place(x) ==
    IF \E i \in 1 .. Len(exported) : exported[i] = x
    THEN CHOOSE i \in 1 .. Len(exported) : exported[i] = x
    ELSE 0

\* the places of the exported vector whose tuple is in the log line
Reported == {Place(top_downloads[i]) : i \in 1 .. Len(top_downloads)}

(***************************************************************************)
(* C14: the log line of log_top_downloads holds min(num, number of         *)
(* entries) different tuples of the exported vector, in the order of       *)
(* decreasing count, tuples of equal count in the order of the export, and *)
(* no tuple left out has a greater count than a tuple of the line.         *)
(***************************************************************************)
C14_TopDownloads ==
    stmt = "logged" =>
        /\ Len(top_downloads) = (IF num < Len(exported) THEN num ELSE Len(exported))
        /\ 0 \notin Reported
        /\ Cardinality(Reported) = Len(top_downloads)
        /\ \A i, j \in 1 .. Len(top_downloads) :
              i < j =>
                  /\ top_downloads[i][4] >= top_downloads[j][4]
                  /\ top_downloads[i][4] = top_downloads[j][4] =>
                        Place(top_downloads[i]) < Place(top_downloads[j])
        /\ \A o \in (1 .. Len(exported)) \ Reported :
              \A i \in 1 .. Len(top_downloads) : exported[o][4] <= top_downloads[i][4]

\* of three entries exported with the counts 1, 3, 3, the two with count 3
\* are logged, in the order of the export
C14_Witness ==
    /\ stmt = "logged"
    /\ num = 2
    /\ Len(exported) = 3
    /\ exported[1][4] = 1 /\ exported[2][4] = 3 /\ exported[3][4] = 3
    /\ top_downloads = <<exported[2], exported[3]>>

RECURSIVE SumFed(_, _)
\* the sum of the counts of the first n records fed that have the key
SumFed(key, n) ==
    IF n = 0 THEN 0
    ELSE (IF fed[n][1] = key THEN fed[n][2] ELSE 0) + SumFed(key, n - 1)

(***************************************************************************)
(* C15: whatever records were fed into a DownloadsMap, it has one entry    *)
(* for every key that was fed and no other entry, never two entries of one *)
(* key, and the count of an entry is the sum of the counts of the records  *)
(* fed with its key.                                                       *)
(***************************************************************************)
C15_MapSumsRecords ==
    /\ \A e1, e2 \in entries : e1[1] = e2[1] => e1 = e2
    /\ {e[1] : e \in entries} = {fed[i][1] : i \in 1 .. Len(fed)}
    /\ \A e \in entries : e[2] = SumFed(e[1], Len(fed))

\* three records of one key, the last with the smallest count, and one of
\* another key
C15_Witness ==
    /\ Len(fed) = 4
    /\ fed[1][1] = fed[2][1] /\ fed[2][1] = fed[4][1] /\ fed[3][1] # fed[1][1]
    /\ fed[1][2] = 2 /\ fed[2][2] = 2 /\ fed[3][2] = 1 /\ fed[4][2] = 1
    /\ entries = {<<fed[1][1], 5>>, <<fed[3][1], 1>>}

\* the two ways a run ends
Success(r) == Ended(r) /\ result[r] = "Ok"
Failure(r) == Ended(r) /\ result[r] \notin {"Ok", "none"}

(***************************************************************************)
(* C16: every run ends, in Success or in Failure and never both, and stays *)
(* as it ended.  The ledger holds at all times its first rows and the      *)
(* whole batch of every write-mode run that ended in Success with a map    *)
(* that has entries, and nothing of any other run: a run in Success has    *)
(* completed its merge, a run in Failure has not.                          *)
(***************************************************************************)
C16_EveryRunEndsAllOrNothing ==
    /\ \A r \in Runs : <>Ended(r)
    /\ [](\A r \in Runs : Ended(r) => (Success(r) # Failure(r)))
    /\ [][\A r \in Runs : Ended(r) => (pc'[r] = pc[r] /\ result'[r] = result[r])]_vars
    /\ [](LedgerIsSumOf(Runs))
    /\ [](\A r \in Runs :
            /\ (Success(r) /\ writing_enabled /\ ~NoEntries(downloads[r])) =>
                  Completed(r, "merge")
            /\ Failure(r) => (~Completed(r, "merge") /\ writes[r] = <<>>))

\* one run ended in Success with its batch in the ledger, the other in
\* Failure after it had written rows in its transaction
C16_Witness ==
    \E r \in Runs : \E o \in Runs \ {r} :
        /\ Committed(r)
        /\ Failure(o) /\ discarded[o] > 0
        /\ ledger # ledger0

(***************************************************************************)
(* C17: no step changes the flags counted and processed of a ledger row    *)
(* that exists: a merge that updates a row changes its downloads counter   *)
(* only, in what its transaction has written and in what its COMMIT leaves *)
(* in the ledger.                                                          *)
(***************************************************************************)
C17_MergeKeepsFlags ==
    [][/\ \A lk \in DOMAIN ledger :
             /\ lk \in DOMAIN ledger'
             /\ ledger'[lk].counted = ledger[lk].counted
             /\ ledger'[lk].processed = ledger[lk].processed
       /\ \A r \in Runs : \A lk \in DOMAIN writes'[r] \cap DOMAIN ledger :
             /\ writes'[r][lk].counted = ledger[lk].counted
             /\ writes'[r][lk].processed = ledger[lk].processed]_vars

\* a committed merge has changed the counter of a row that was counted and
\* processed before, and the row still is
C17_Witness ==
    \E r \in Runs :
        /\ Committed(r)
        /\ <<3, "2024-01-16">> \in DOMAIN ledger0
        /\ ledger[<<3, "2024-01-16">>].downloads = ledger0[<<3, "2024-01-16">>].downloads + 1
        /\ ledger[<<3, "2024-01-16">>].counted = 1
        /\ ledger[<<3, "2024-01-16">>].processed

(***************************************************************************)
(* C18: when the merge statement of a write-mode run has ended, the number *)
(* of ledger rows it has inserted or updated is the number log_stats       *)
(* logged as the inserts needed.                                           *)
(***************************************************************************)
C18_LoggedInsertsAreLedgerWrites ==
    \A r \in Runs :
        pc[r] = "merged" =>
            log_stats(downloads[r]).total_inserts = Cardinality(DOMAIN writes[r])

\* the same, for the maps all of whose entries the catalog resolves
C18_HoldsWithoutUnmatched ==
    \A r \in Runs :
        (pc[r] = "merged" /\ Missing(downloads[r]) = {}) =>
            log_stats(downloads[r]).total_inserts = Cardinality(DOMAIN writes[r])

(***************************************************************************)
(* C19: when the merge statement of a run has ended, every row of its      *)
(* staging table either has been written into the ledger row of its key,   *)
(* or its (name, version) pair has been returned as unmatched, and never   *)
(* both; the rows written and the pairs returned are as many as the        *)
(* staging rows, and every ledger row the transaction wrote holds what it  *)
(* held before plus the counts of the rows written into it, each once.     *)
(***************************************************************************)
C19_StagingRowsPartitioned ==
    \A r \in Runs :
        pc[r] = "merged" =>
            LET rows == temp[r].rows
                written(k) == k \in handled[r] /\ ledger_key(rows[k]) \in DOMAIN writes[r]
                returned(k) == BagIn(<<rows[k].name, rows[k].version>>, failed_inserts[r])
            IN  /\ \A k \in DOMAIN rows : written(k) # returned(k)
                /\ Cardinality(handled[r]) + BagCardinality(failed_inserts[r])
                      = Cardinality(DOMAIN rows)
                /\ \A lk \in DOMAIN writes[r] :
                      writes[r][lk].downloads =
                          (IF lk \in DOMAIN ledger THEN ledger[lk].downloads ELSE 0)
                          + SumStaged(downloads[r],
                                      {k \in handled[r] : ledger_key(rows[k]) = lk})

\* a merge has ended with one row written and one returned as unmatched
C19_Witness ==
    \E r \in Runs :
        /\ pc[r] = "merged"
        /\ handled[r] = {<<"quick-error", V_1_2_3, "2024-01-17">>}
        /\ failed_inserts[r] = SetToBag({<<"libc", "1.2.3">>})
        /\ DOMAIN writes[r] = {<<3, "2024-01-17">>}

\* versions whose numbers have one and two digits
SemVers == {<<a, b, c>> : a, b, c \in {1, 2, 12}}

\* different versions have different strings
to_string_is_injective ==
    \A v1, v2 \in SemVers \cup {V_1_2_3} : to_string(v1) = to_string(v2) => v1 = v2

(***************************************************************************)
(* C20: no two rows of one staging table that the catalog resolves have    *)
(* the same (version id, date), and no merge fails because its statement   *)
(* would update one ledger row twice; different versions have different    *)
(* version strings.                                                        *)
(***************************************************************************)
C20_StagingRowsHaveDistinctKeys ==
    /\ to_string_is_injective
    /\ \A r \in Runs :
        /\ result[r] # "save_to_version_downloads: row affected a second time"
        /\ pc[r] \in {"filled", "merged"} =>
              \A k1, k2 \in DOMAIN temp[r].rows :
                  (/\ k1 # k2
                   /\ InCatalog(temp[r].rows[k1].name, temp[r].rows[k1].version)
                   /\ InCatalog(temp[r].rows[k2].name, temp[r].rows[k2].version)) =>
                      /\ CatalogKey(k1) # CatalogKey(k2)
                      /\ ledger_key(temp[r].rows[k1]) # ledger_key(temp[r].rows[k2])

\* a merge has written the two rows of its staging table, of one version on
\* two days, into two ledger rows
C20_Witness ==
    \E r \in Runs :
        /\ pc[r] = "merged"
        /\ Cardinality(handled[r]) = 2
        /\ DOMAIN writes[r] = {<<3, "2024-01-16">>, <<3, "2024-01-17">>}

\* the ledger row of key lk as the transaction of run r found it
Before(lk) == IF lk \in DOMAIN ledger THEN ledger[lk].downloads ELSE 0

\* the staging row of entry k of run r holds the count of the entry, and so
\* does what the merge has added to the ledger row of its key
CountReachesLedger(r, k) ==
    LET row == temp[r].rows[k]
    IN  /\ row.downloads = downloads[r][k]
        /\ (pc[r] = "merged" /\ InCatalog(k[1], to_string(k[2]))) =>
              /\ CatalogKey(k) \in DOMAIN writes[r]
              /\ writes[r][CatalogKey(k)].downloads =
                    Before(CatalogKey(k)) + downloads[r][k]

(***************************************************************************)
(* C21: whatever u64 count an entry holds, once the staging table of a run *)
(* is filled its row holds that count, and once the merge statement has    *)
(* ended the ledger row of the entry holds what it held before plus that   *)
(* count: a count that does not fit has made the merge fail instead.       *)
(***************************************************************************)
C21_CountReachesLedgerUnchanged ==
    \A r \in Runs :
        pc[r] \in {"filled", "merged"} =>
            \A k \in DOMAIN downloads[r] : CountReachesLedger(r, k)

\* the same, for the entries whose count the cast to i64 does not wrap
C21_HoldsBelowWrap ==
    \A r \in Runs :
        pc[r] \in {"filled", "merged"} =>
            \A k \in DOMAIN downloads[r] :
                downloads[r][k] <= I64_MAX => CountReachesLedger(r, k)

\* the u64 counts that reach the staging column as another number: the cast
\* wraps them to a negative number that fits an INTEGER
WrappedCounts == {n \in 0 .. U64_MAX : InInteger(as_i64(n)) /\ as_i64(n) # n}

\* they are the 2 ^ (BitsInteger - 1) largest u64 values
C21_WrappedCountsAreTheLargest ==
    WrappedCounts = (U64_MAX - Pow2(BitsInteger - 1) + 1) .. U64_MAX

\* the ledger keys the staging rows of run r resolve to
ResolvedKeys(r) ==
    {CatalogKey(k) : k \in {x \in DOMAIN temp[r].rows :
                               InCatalog(temp[r].rows[x].name, temp[r].rows[x].version)}}

(***************************************************************************)
(* C22: the COMMIT of a merge leaves every ledger row whose key no staging *)
(* row of that merge resolves to as it was, rows of other versions and     *)
(* rows of the same version on other dates included, and adds no row of    *)
(* such a key; no other step of a run changes the ledger at all.           *)
(***************************************************************************)
C22_MergeLeavesOtherRows ==
    [][/\ \A r \in Runs :
             (pc[r] = "merged" /\ pc'[r] = "done") =>
                 /\ \A lk \in DOMAIN ledger \ ResolvedKeys(r) :
                       lk \in DOMAIN ledger' /\ ledger'[lk] = ledger[lk]
                 /\ DOMAIN ledger' \ DOMAIN ledger \subseteq ResolvedKeys(r)
       /\ (\A r \in Runs : ~(pc[r] = "merged" /\ result'[r] = "Ok")) =>
             ledger' = ledger]_vars

\* a committed merge of one entry has inserted its row and left alone the
\* row of the same version on the other day and the row of another version
C22_Witness ==
    \E r \in Runs :
        /\ Committed(r)
        /\ \A o \in Runs \ {r} : ~Committed(o)
        /\ DOMAIN downloads[r] = {<<"quick-error", V_1_2_3, "2024-01-17">>}
        /\ ledger0 # <<>>
        /\ ledger[<<3, "2024-01-16">>] = ledger0[<<3, "2024-01-16">>]
        /\ ledger[<<1, "2024-01-17">>] = ledger0[<<1, "2024-01-17">>]
        /\ <<3, "2024-01-17">> \in DOMAIN ledger

====
